---- MODULE Spec2Model ----
(***************************************************************************)
(* A model of the FastApiTemplate authentication backend:                  *)
(*   app/auth/utils.py    password hashing, token issuance, cookies        *)
(*   app/dao/base.py      the generic BaseDAO over one session             *)
(*   app/auth/router.py   the register / login / logout / refresh handlers *)
(*   app/auth/schemas.py  the request and value objects                    *)
(*   app/auth/models.py   the users table and its constraints              *)
(*                                                                         *)
(* Every column value but the two timestamps is a sequence of strings, so  *)
(* that any two of them can be compared: an email is <<local, domain>>, a  *)
(* password is its sequence of characters, None is the empty sequence.     *)
(***************************************************************************)
EXTENDS Integers, Sequences, FiniteSets, TLC

VARIABLES
    users,      \* the committed rows of the users table
    pending,    \* per request session: rows flushed and not yet committed
    req,        \* per request session: the request being served
    nreq,       \* requests begun so far
    next_id,    \* the next fresh uuid4
    view,       \* the DAO session's view of the table (committed + flushed)
    txn,        \* the DAO session's transaction: its state and its start time
    last,       \* the last BaseDAO call: arguments, result, exception, log
    ncalls,     \* BaseDAO calls so far
    now,        \* the clock, in ticks
    adv,        \* clock advances so far
    tokens,     \* the token pairs issued by create_tokens
    dec,        \* the last token verification
    pwd         \* the password under hashing and verification

vars == <<users, pending, req, nreq, next_id, view, txn, last, ncalls, now, adv, tokens, dec, pwd>>

\* ------------------------------------------------------------------ bounds

MaxRequests == 3
MaxIds == 3
MaxAdvances == 2
MaxTicks == 2
MaxIssues == 2
MaxCalls == 2

\* ----------------------------------------------------------------- strings

None == <<>>

Rep(c, n) == [i \in 1..n |-> c]

Take(s, n) == IF Len(s) <= n THEN s ELSE SubSeq(s, 1, n)

\* The UTF-8 encoding of one character: "a" and "b" take one byte, the
\* Cyrillic letters YA and YU take two.
UTF8Char(c) ==
    CASE c = "a" -> <<"61">>
      [] c = "b" -> <<"62">>
      [] c = "YA" -> <<"D1", "8F">>
      [] c = "YU" -> <<"D1", "8E">>

RECURSIVE UTF8(_)
UTF8(s) == IF s = <<>> THEN <<>> ELSE UTF8Char(Head(s)) \o UTF8(Tail(s))

\* ------------------------------------------------- app/auth/utils.py: bcrypt

\* bcrypt hashes the first 72 bytes of the secret and ignores the rest.
BcryptMaxBytes == 72

BcryptIdent == "$2b$"

Salts == {"salt1", "salt2"}

\* pwd_context.hash: the hash string carries the scheme, the salt and the
\* digest of the truncated secret (the digest is modelled as collision free).
bcrypt(secret, salt) == <<BcryptIdent, salt>> \o Take(UTF8(secret), BcryptMaxBytes)

get_password_hash_plain(password, salt) == password

get_password_hash(password, salt) == bcrypt(password, salt)

\* pwd_context.identify: whether the stored string is a bcrypt hash.
IsHash(h) == Len(h) >= 2 /\ h[1] = BcryptIdent

\* pwd_context.verify: hashes the candidate with the stored salt and compares.
\* On a stored string that is no hash of a known scheme the library raises
\* UnknownHashError instead (verify_raises).
verify_raises(hashed_password) == ~IsHash(hashed_password)

verify_password(plain_password, hashed_password) ==
    /\ IsHash(hashed_password)
    /\ bcrypt(plain_password, hashed_password[2]) = hashed_password

\* ------------------------------------------------------------ password inputs

PwShort == Rep("a", 4)
PwA == Rep("a", 5)
PwB == Rep("a", 4) \o <<"b">>
PwCyrA == Rep("YA", 36) \o <<"a">>
PwCyrB == Rep("YA", 36) \o <<"b">>
PwLongA == Rep("a", BcryptMaxBytes) \o <<"a">>
PwLongB == Rep("a", BcryptMaxBytes) \o <<"b">>
PwEdge == Rep("a", BcryptMaxBytes)

PwdInputs == {PwShort, PwA, PwB, PwCyrA, PwCyrB, PwLongA, PwLongB, PwEdge}

\* ------------------------------------------- app/auth/schemas.py: the objects

\* A pydantic object: the value of every field of its schema (None for a field
\* left at its default) and the set of fields that were set.
Obj(schema, d) ==
    [data |-> [f \in schema |-> IF f \in DOMAIN d THEN d[f] ELSE None],
     fields_set |-> DOMAIN d]

\* model_dump(): every field.
model_dump_all(o) == o.data

model_dump_keep_unset(o) == o.data

\* model_dump(exclude_unset=True): the fields that were set.
model_dump(o) == [f \in o.fields_set |-> o.data[f]]

NoObj == Obj({}, <<>>)

\* EmailStr: the domain part is lower-cased, the local part is kept.
LowerDomain(d) == IF d = "X.COM" THEN "x.com" ELSE d

EmailStr(e) == <<e[1], LowerDomain(e[2])>>

EmailModel(email) == Obj({"email"}, [email |-> EmailStr(email)])

\* UserBase.validate_phone_number: "+" and 5 to 15 digits. A phone number is
\* <<sign, digits>>, the digits given by their count.
validate_phone_number(value) ==
    value[1] = "+" /\ value[2] \in {"5d-1", "5d-2", "15d"}

\* ------------------------------------------- app/auth/models.py: the table

ADMIN == <<"e0fa981c">>
USER == <<"1259872b">>
MODERATOR == <<"7491f28e">>

\* The roles table, filled by the migration.
Roles == {ADMIN, USER, MODERATOR}

Columns ==
    {"id", "created_at", "updated_at", "phone_number", "first_name", "last_name",
     "email", "password", "role_id"}

UniqueColsNone == {"id"}

\* id is the primary key; phone_number and email are str_uniq.
UniqueCols == {"id", "phone_number", "email"}

NotNullCols ==
    {"id", "phone_number", "first_name", "last_name", "email", "password", "role_id"}

uuid4(n) == <<"uuid", ToString(n)>>

\* User(**values_dict) followed by the INSERT: a column without a value takes
\* its default (id: uuid4, role_id: SystemRoles.USER, the timestamps: now())
\* and is NULL when it has none.
NewRow_default_admin(values_dict, id, t) ==
    [c \in Columns |->
        IF c \in DOMAIN values_dict THEN values_dict[c]
        ELSE CASE c = "id" -> id
               [] c = "role_id" -> ADMIN
               [] c \in {"created_at", "updated_at"} -> t
               [] OTHER -> None]

NewRow(values_dict, id, t) ==
    [c \in Columns |->
        IF c \in DOMAIN values_dict THEN values_dict[c]
        ELSE CASE c = "id" -> id
               [] c = "role_id" -> USER
               [] c \in {"created_at", "updated_at"} -> t
               [] OTHER -> None]

\* The constraints of the users table over a set of rows.
Unique(T) ==
    \A r1 \in T : \A r2 \in T : \A c \in UniqueCols : r1 # r2 => r1[c] # r2[c]

IntegrityOK(T) ==
    /\ Unique(T)
    /\ \A r \in T : \A c \in NotNullCols : r[c] # None
    /\ \A r \in T : r.role_id \in Roles

\* ------------------------------------------------ app/dao/base.py: BaseDAO

\* What a BaseDAO call leaves: the session's view of the table, the records
\* and the number it returns (n is -1 when it returns none), the exception it
\* raises ("none" when it returns) and the levels of the lines it logged.
Result(T, recs, n, exc, log) == [rows |-> T, recs |-> recs, n |-> n, exc |-> exc, log |-> log]

\* select(...).filter_by(**filter_dict): the rows equal to the filter on every key.
filter_by(T, filter_dict) ==
    {r \in T : \A k \in DOMAIN filter_dict : r[k] = filter_dict[k]}

\* find_one_or_none_by_id. down: the statement cannot be executed (the
\* connection is lost, or the transaction has failed before).
find_one_or_none_by_id(T, data_id, down) ==
    IF down THEN Result(T, {}, -1, "DBAPIError", <<"error">>)
    ELSE Result(T, filter_by(T, [id |-> data_id]), -1, "none", <<"info">>)

find_one_or_none_nolookup(T, filters, down) ==
    Result(T, {}, -1, "none", <<"info", "info">>)

\* find_one_or_none: scalar_one_or_none raises MultipleResultsFound, a
\* SQLAlchemyError, when more than one row matches.
find_one_or_none(T, filters, down) ==
    LET filter_dict == model_dump(filters)
        matched == filter_by(T, filter_dict)
    IN  IF down THEN Result(T, {}, -1, "DBAPIError", <<"info", "error">>)
        ELSE IF Cardinality(matched) > 1
             THEN Result(T, {}, -1, "MultipleResultsFound", <<"info", "error">>)
             ELSE Result(T, matched, -1, "none", <<"info", "info">>)

find_all(T, filters, down) ==
    LET filter_dict == model_dump(filters)
        records == filter_by(T, filter_dict)
    IN  IF down THEN Result(T, {}, -1, "DBAPIError", <<"info", "error">>)
        ELSE Result(T, records, Cardinality(records), "none", <<"info", "info">>)

count(T, filters, down) ==
    LET filter_dict == model_dump(filters)
    IN  IF down THEN Result(T, {}, -1, "DBAPIError", <<"info", "error">>)
        ELSE Result(T, {}, Cardinality(filter_by(T, filter_dict)), "none", <<"info", "info">>)

add_swallow(T, values, id, t, down) ==
    LET new_instance == NewRow(model_dump(values), id, t)
    IN  IF down \/ ~IntegrityOK(T \cup {new_instance})
        THEN Result(T, {new_instance}, -1, "none", <<"info", "info", "error">>)
        ELSE Result(T \cup {new_instance}, {new_instance}, -1, "none", <<"info", "info">>)

\* add: the success line is logged before the flush, which sends the INSERT.
\* A key of values_dict that is no column makes User(**values_dict) raise
\* TypeError, which the handler of SQLAlchemyError does not catch.
add(T, values, id, t, down) ==
    LET values_dict == model_dump(values)
        new_instance == NewRow(values_dict, id, t)
    IN  IF ~(DOMAIN values_dict \subseteq Columns)
        THEN Result(T, {}, -1, "TypeError", <<"info">>)
        ELSE IF down
        THEN Result(T, {}, -1, "DBAPIError", <<"info", "info", "error">>)
        ELSE IF ~IntegrityOK(T \cup {new_instance}) \/ new_instance \in T
        THEN Result(T, {}, -1, "IntegrityError", <<"info", "info", "error">>)
        ELSE Result(T \cup {new_instance}, {new_instance}, -1, "none", <<"info", "info">>)

\* add_many: one flush sends every INSERT; the n-th instance takes the n-th
\* fresh id.
RECURSIVE NewRows(_, _, _, _)
NewRows(instances, n, next, t) ==
    IF n > Len(instances) THEN {}
    ELSE {NewRow(model_dump(instances[n]), uuid4(next + n - 1), t)}
            \cup NewRows(instances, n + 1, next, t)

add_many(T, instances, next, t, down) ==
    LET new_instances == NewRows(instances, 1, next, t)
        T2 == T \cup new_instances
    IN  IF down THEN Result(T, {}, -1, "DBAPIError", <<"info", "info", "error">>)
        ELSE IF \/ ~IntegrityOK(T2)
                \/ Cardinality(T2) # Cardinality(T) + Len(instances)
        THEN Result(T, {}, -1, "IntegrityError", <<"info", "info", "error">>)
        ELSE Result(T2, new_instances, -1, "none", <<"info", "info">>)

\* UPDATE ... SET **values_dict on one row: updated_at carries onupdate=now()
\* and is set by every UPDATE that does not assign it.
SetAll(r, values_dict, t) ==
    [c \in Columns |->
        IF c \in DOMAIN values_dict THEN values_dict[c]
        ELSE IF c = "updated_at" THEN t
        ELSE r[c]]

\* One UPDATE statement over the rows `matched` of T: the table after it, or
\* T itself when it breaks a constraint (ok is then FALSE).
Updated(T, matched, values_dict, t) ==
    LET T2 == (T \ matched) \cup {SetAll(r, values_dict, t) : r \in matched}
        ok == IntegrityOK(T2) /\ Cardinality(T2) = Cardinality(T)
    IN  [rows |-> IF ok THEN T2 ELSE T, ok |-> ok]

update_dump_all(T, filters, values, t, down) ==
    LET matched == filter_by(T, model_dump_all(filters))
        u == Updated(T, matched, model_dump(values), t)
    IN  IF down \/ ~u.ok THEN Result(T, {}, -1, "DBAPIError", <<"info", "error">>)
        ELSE Result(u.rows, {}, Cardinality(matched), "none", <<"info", "info">>)

update_guarded(T, filters, values, t, down) ==
    LET filter_dict == model_dump(filters)
        matched == filter_by(T, filter_dict)
        u == Updated(T, matched, model_dump(values), t)
    IN  IF DOMAIN filter_dict = {}
        THEN Result(T, {}, -1, "ValueError", <<"info", "error">>)
        ELSE IF down THEN Result(T, {}, -1, "DBAPIError", <<"info", "error">>)
        ELSE IF ~u.ok THEN Result(T, {}, -1, "IntegrityError", <<"info", "error">>)
        ELSE Result(u.rows, {}, Cardinality(matched), "none", <<"info", "info">>)

\* update: where() over the set filter fields (no field: every row).
update(T, filters, values, t, down) ==
    LET filter_dict == model_dump(filters)
        values_dict == model_dump(values)
        matched == filter_by(T, filter_dict)
        u == Updated(T, matched, values_dict, t)
    IN  IF down THEN Result(T, {}, -1, "DBAPIError", <<"info", "error">>)
        ELSE IF ~u.ok THEN Result(T, {}, -1, "IntegrityError", <<"info", "error">>)
        ELSE Result(u.rows, {}, Cardinality(matched), "none", <<"info", "info">>)

delete_unguarded(T, filters, down) ==
    LET matched == filter_by(T, model_dump(filters))
    IN  IF down THEN Result(T, {}, -1, "DBAPIError", <<"info", "error">>)
        ELSE Result(T \ matched, {}, Cardinality(matched), "none", <<"info", "info">>)

\* delete: refuses a filter without a set field before any statement.
delete(T, filters, down) ==
    LET filter_dict == model_dump(filters)
        matched == filter_by(T, filter_dict)
    IN  IF DOMAIN filter_dict = {}
        THEN Result(T, {}, -1, "ValueError", <<"info", "error">>)
        ELSE IF down THEN Result(T, {}, -1, "DBAPIError", <<"info", "error">>)
        ELSE Result(T \ matched, {}, Cardinality(matched), "none", <<"info", "info">>)

\* bulk_update: one UPDATE per record that has its id set, in order; a record
\* without id is skipped.
RECURSIVE BulkApply(_, _, _, _)
BulkApply(T, records, n, t) ==
    IF n > Len(records) THEN [rows |-> T, n |-> 0, ok |-> TRUE]
    ELSE LET record_dict == model_dump(records[n])
         IN  IF "id" \notin DOMAIN record_dict THEN BulkApply(T, records, n + 1, t)
             ELSE LET update_data ==
                          [k \in DOMAIN record_dict \ {"id"} |-> record_dict[k]]
                      matched == filter_by(T, [id |-> record_dict["id"]])
                      u == Updated(T, matched, update_data, t)
                      rest == BulkApply(u.rows, records, n + 1, t)
                  IN  IF ~u.ok THEN [rows |-> T, n |-> 0, ok |-> FALSE]
                      ELSE [rows |-> rest.rows, n |-> Cardinality(matched) + rest.n,
                            ok |-> rest.ok]

bulk_update(T, records, t, down) ==
    LET b == BulkApply(T, records, 1, t)
    IN  IF down /\ \E i \in 1..Len(records) : "id" \in DOMAIN model_dump(records[i])
        THEN Result(T, {}, -1, "DBAPIError", <<"info", "error">>)
        ELSE IF ~b.ok THEN Result(T, {}, -1, "IntegrityError", <<"info", "error">>)
        ELSE Result(b.rows, {}, b.n, "none", <<"info", "info">>)

\* --------------------------------------------------- BaseDAO call inputs

EmailA == <<"a", "x.com">>
EmailB == <<"b", "x.com">>
PhoneA == <<"+", "5d-1">>
PhoneB == <<"+", "5d-2">>
Ivan == <<"Ivan">>
Olga == <<"Olga">>
Petrov == <<"Petrov">>
HashA == get_password_hash(PwA, "salt1")

\* Every object over the fields of `schema` with values from vals[field], any
\* subset of the fields set.
Objs(schema, vals) ==
    UNION {{Obj(schema, d) : d \in [S -> UNION {vals[f] : f \in S}]
                \cap {d \in [S -> UNION {vals[f] : f \in S}] : \A f \in S : d[f] \in vals[f]}}
           : S \in SUBSET schema}

FilterSchema == {"id", "email", "first_name"}

FilterVals == [id |-> {uuid4(1)}, email |-> {EmailA, EmailB}, first_name |-> {Ivan}]

FilterObjs == Objs(FilterSchema, FilterVals)

ValueSchema == {"email", "first_name"}

ValueVals == [email |-> {EmailB}, first_name |-> {Olga}]

\* The value objects given to update: at least one field is set.
ValueObjs == {o \in Objs(ValueSchema, ValueVals) : o.fields_set # {}}

UserSchema == {"email", "phone_number", "first_name", "last_name", "password"}

UserObj(email, phone, first) ==
    Obj(UserSchema, [email |-> email, phone_number |-> phone, first_name |-> first,
                     last_name |-> Petrov, password |-> HashA])

\* The value objects given to add: complete users, and one without password.
AddObjs ==
    {UserObj(e, p, f) : e \in {EmailA, EmailB}, p \in {PhoneA, PhoneB}, f \in {Ivan, Olga}}
        \cup {Obj(UserSchema, [email |-> EmailA, phone_number |-> PhoneA,
                               first_name |-> Ivan, last_name |-> Petrov])}

ManyObjs == {UserObj(EmailA, PhoneA, Ivan), UserObj(EmailB, PhoneB, Ivan),
             UserObj(EmailB, PhoneA, Olga)}

ManyLists == {<<a>> : a \in ManyObjs} \cup {<<a, b>> : a \in ManyObjs, b \in ManyObjs}

BulkObjs ==
    {Obj(FilterSchema, [id |-> uuid4(1), first_name |-> Olga]),
     Obj(FilterSchema, [id |-> uuid4(2), email |-> EmailA]),
     Obj(FilterSchema, [id |-> uuid4(1), email |-> EmailB]),
     Obj(FilterSchema, [first_name |-> Olga])}

BulkLists == {<<a>> : a \in BulkObjs} \cup {<<a, b>> : a \in BulkObjs, b \in BulkObjs}

\* ------------------------------------------------- BaseDAO over one session

NoCall ==
    [op |-> "none", filters |-> NoObj, values |-> NoObj, list |-> <<>>, before |-> {},
     down |-> FALSE, t |-> 0, recs |-> {}, n |-> -1, exc |-> "none", log |-> <<>>]

\* now() inside a transaction is the time the transaction began; the session
\* begins one with its first statement.
TxnTime == IF txn.state = "none" THEN now ELSE txn.began

\* The call's statement cannot be executed: the connection fails, or the
\* transaction has failed before and was not rolled back.
Down(fail) == fail \/ txn.state = "failed"

flush_commit(committed, res) == IF res.exc = "none" THEN res.rows ELSE committed

\* await self._session.flush(), the last statement every writing call makes
\* on its session: the changes reach the open transaction and the committed
\* rows stay as they are. No call commits or rolls back.
flush(committed, res) == committed

\* One BaseDAO call on the session the DAO was constructed with.
DaoCall(op, filters, values, list, down, res) ==
    /\ last.op = "none"
    /\ ncalls < MaxCalls
    /\ ncalls' = ncalls + 1
    /\ view' = res.rows
    /\ users' = flush(users, res)
    /\ txn' = IF res.exc \in {"DBAPIError", "IntegrityError"}
               THEN [state |-> "failed", began |-> TxnTime]
               ELSE IF res.exc = "ValueError" THEN txn
               ELSE [state |-> "active", began |-> TxnTime]
    /\ last' = [op |-> op, filters |-> filters, values |-> values, list |-> list,
                before |-> view, down |-> down, t |-> TxnTime, recs |-> res.recs,
                n |-> res.n, exc |-> res.exc, log |-> res.log]
    /\ UNCHANGED <<pending, req, nreq, now, adv, tokens, dec, pwd>>

DaoFindById ==
    \E i \in 1..MaxIds, fail \in BOOLEAN :
        /\ DaoCall("find_one_or_none_by_id", Obj({"id"}, [id |-> uuid4(i)]), NoObj, <<>>,
                   Down(fail), find_one_or_none_by_id(view, uuid4(i), Down(fail)))
        /\ UNCHANGED next_id

DaoFindOne ==
    \E f \in FilterObjs, fail \in BOOLEAN :
        /\ DaoCall("find_one_or_none", f, NoObj, <<>>, Down(fail),
                   find_one_or_none(view, f, Down(fail)))
        /\ UNCHANGED next_id

DaoFindAll ==
    \E f \in FilterObjs, fail \in BOOLEAN :
        /\ DaoCall("find_all", f, NoObj, <<>>, Down(fail), find_all(view, f, Down(fail)))
        /\ UNCHANGED next_id

DaoCount ==
    \E f \in FilterObjs, fail \in BOOLEAN :
        /\ DaoCall("count", f, NoObj, <<>>, Down(fail), count(view, f, Down(fail)))
        /\ UNCHANGED next_id

DaoAdd ==
    \E v \in AddObjs, fail \in BOOLEAN :
        /\ next_id <= MaxIds
        /\ DaoCall("add", NoObj, v, <<>>, Down(fail),
                   add(view, v, uuid4(next_id), TxnTime, Down(fail)))
        /\ next_id' = next_id + 1

DaoAddMany ==
    \E l \in ManyLists, fail \in BOOLEAN :
        /\ next_id + Len(l) - 1 <= MaxIds
        /\ DaoCall("add_many", NoObj, NoObj, l, Down(fail),
                   add_many(view, l, next_id, TxnTime, Down(fail)))
        /\ next_id' = next_id + Len(l)

DaoUpdate ==
    \E f \in FilterObjs, v \in ValueObjs, fail \in BOOLEAN :
        /\ DaoCall("update", f, v, <<>>, Down(fail), update(view, f, v, TxnTime, Down(fail)))
        /\ UNCHANGED next_id

DaoDelete ==
    \E f \in FilterObjs, fail \in BOOLEAN :
        /\ DaoCall("delete", f, NoObj, <<>>, Down(fail), delete(view, f, Down(fail)))
        /\ UNCHANGED next_id

DaoBulkUpdate ==
    \E l \in BulkLists, fail \in BOOLEAN :
        /\ DaoCall("bulk_update", NoObj, NoObj, l, Down(fail),
                   bulk_update(view, l, TxnTime, Down(fail)))
        /\ UNCHANGED next_id

\* The call is over: its caller has taken the result or the exception.
DaoReturn ==
    /\ last.op # "none"
    /\ last' = NoCall
    /\ UNCHANGED <<users, pending, req, nreq, next_id, view, txn, ncalls, now, adv, tokens,
                   dec, pwd>>

\* The caller of the DAO ends the transaction: session.commit() makes the
\* view durable, unless the transaction has failed, and then nothing is kept.
DaoCommit ==
    /\ last.op = "none"
    /\ txn.state # "none"
    /\ users' = IF txn.state = "active" THEN view ELSE users
    /\ view' = IF txn.state = "active" THEN view ELSE users
    /\ txn' = [state |-> "none", began |-> 0]
    /\ UNCHANGED <<pending, req, nreq, next_id, last, ncalls, now, adv, tokens, dec, pwd>>

\* session.rollback(): the view falls back to the committed rows.
DaoRollback ==
    /\ last.op = "none"
    /\ txn.state # "none"
    /\ view' = users
    /\ txn' = [state |-> "none", began |-> 0]
    /\ UNCHANGED <<users, pending, req, nreq, next_id, last, ncalls, now, adv, tokens, dec, pwd>>

\* Time passes between two statements.
DaoTick ==
    /\ last.op = "none"
    /\ adv < MaxTicks
    /\ adv' = adv + 1
    /\ now' = now + 1
    /\ UNCHANGED <<users, pending, req, nreq, next_id, view, txn, last, ncalls, tokens, dec, pwd>>

Sessions == {"s1", "s2"}

NoBody ==
    [email |-> None, phone_number |-> None, first_name |-> None, last_name |-> None,
     password |-> None, confirm_password |-> None]

NoReq ==
    [kind |-> "none", pc |-> "idle", body |-> NoBody, salt |-> "", user_data |-> NoObj,
     out |-> "none", cookies |-> <<>>, at |-> 0, user |-> {}]

NoDecode == [op |-> "none", token |-> <<>>, at |-> 0, ok |-> FALSE, sub |-> None, err |-> "none"]

NoPwd == [state |-> "none", p |-> None, q |-> None, salt |-> "", h |-> None,
          vp |-> FALSE, vq |-> FALSE]

InitAuth ==
    /\ pending = [s \in Sessions |-> {}]
    /\ req = [s \in Sessions |-> NoReq]
    /\ nreq = 0

InitSession ==
    /\ txn = [state |-> "none", began |-> 0]
    /\ last = NoCall
    /\ ncalls = 0

InitClock == now = 0 /\ adv = 0

InitTokens == tokens = {} /\ dec = NoDecode

InitCommon == InitAuth /\ InitSession /\ InitClock /\ InitTokens /\ pwd = NoPwd

\* The tables the DAO session may find: empty, or filled by earlier requests.
SeedRow(n, email, phone, first) ==
    NewRow(model_dump(UserObj(email, phone, first)), uuid4(n), 0)

SeedTables ==
    {{}, {SeedRow(1, EmailA, PhoneA, Ivan)},
     {SeedRow(1, EmailA, PhoneA, Ivan), SeedRow(2, EmailB, PhoneB, Ivan)}}

InitDAO ==
    /\ InitCommon
    /\ users \in SeedTables
    /\ view = users
    /\ next_id = Cardinality(users) + 1

NextDAO ==
    \/ DaoFindById
    \/ DaoFindOne
    \/ DaoFindAll
    \/ DaoCount
    \/ DaoAdd
    \/ DaoAddMany
    \/ DaoUpdate
    \/ DaoDelete
    \/ DaoBulkUpdate
    \/ DaoReturn
    \/ DaoCommit
    \/ DaoRollback
    \/ DaoTick

SpecDAO == InitDAO /\ [][NextDAO]_vars

\* ------------------------------------- hashing and verifying one password

InitPwd ==
    /\ InitAuth /\ InitSession /\ InitClock /\ InitTokens
    /\ users = {} /\ view = {} /\ next_id = 1
    /\ \E p \in PwdInputs, q \in PwdInputs, salt \in Salts :
            pwd = [NoPwd EXCEPT !.state = "init", !.p = p, !.q = q, !.salt = salt]

\* get_password_hash(p), the library drawing the salt.
PwdHash ==
    /\ pwd.state = "init"
    /\ pwd' = [pwd EXCEPT !.state = "hashed", !.h = get_password_hash(pwd.p, pwd.salt)]
    /\ UNCHANGED <<users, pending, req, nreq, next_id, view, txn, last, ncalls, now, adv,
                   tokens, dec>>

\* verify_password(p, h) and verify_password(q, h).
PwdVerify ==
    /\ pwd.state = "hashed"
    /\ ~verify_raises(pwd.h)
    /\ pwd' = [pwd EXCEPT !.state = "verified",
                          !.vp = verify_password(pwd.p, pwd.h),
                          !.vq = verify_password(pwd.q, pwd.h)]
    /\ UNCHANGED <<users, pending, req, nreq, next_id, view, txn, last, ncalls, now, adv,
                   tokens, dec>>

NextPwd == PwdHash \/ PwdVerify

SpecPwd == InitPwd /\ [][NextPwd]_vars

\* ------------------------------------------ app/auth/utils.py: the tokens

\* The clock counts ticks; a timestamp counts whole seconds.
TicksPerSecond == 2

AccessSeconds == 10

RefreshSeconds == 604800

SECRET_KEY == "SECRET_KEY"

\* int(dt.timestamp()): the whole seconds of the time t.
int_timestamp(t) == t \div TicksPerSecond

\* jwt.encode: the claims signed with the key.
jwt_encode(payload, key) == [payload |-> payload, sig |-> key]

create_tokens_nosub(data, t) ==
    [access_token |->
        jwt_encode([sub |-> None, exp |-> int_timestamp(t + AccessSeconds * TicksPerSecond),
                    type |-> "access"], SECRET_KEY),
     refresh_token |->
        jwt_encode([sub |-> None, exp |-> int_timestamp(t + RefreshSeconds * TicksPerSecond),
                    type |-> "refresh"], SECRET_KEY)]

\* create_tokens(data) at the time t: each payload is a copy of data with exp
\* and type added.
create_tokens(data, t) ==
    LET access_expire == t + AccessSeconds * TicksPerSecond
        refresh_expire == t + RefreshSeconds * TicksPerSecond
    IN  [access_token |->
            jwt_encode([sub |-> data.sub, exp |-> int_timestamp(access_expire),
                        type |-> "access"], SECRET_KEY),
         refresh_token |->
            jwt_encode([sub |-> data.sub, exp |-> int_timestamp(refresh_expire),
                        type |-> "refresh"], SECRET_KEY)]

\* str(user_id): the text of the UUID, which is not the UUID object.
str(user_id) == <<"str", user_id[2]>>

set_tokens_swapped(user_id, t) ==
    LET new_tokens == create_tokens([sub |-> str(user_id)], t)
    IN  [user_access_token |-> new_tokens.refresh_token,
         user_refresh_token |-> new_tokens.access_token]

\* set_tokens(response, user_id): the two cookies of the response.
set_tokens(user_id, t) ==
    LET new_tokens == create_tokens([sub |-> str(user_id)], t)
    IN  [user_access_token |-> new_tokens.access_token,
         user_refresh_token |-> new_tokens.refresh_token]

\* The verification of a token at the time t (app/core/dependencies/auth_dep.py
\* is not among the sources; this follows the specification, 4.2): the
\* signature must be the key's and the expiry must not have passed.
jwt_decode(token, key, t) ==
    IF token.sig # key THEN [ok |-> FALSE, sub |-> None, err |-> "JWTError"]
    ELSE IF t > token.payload.exp * TicksPerSecond
    THEN [ok |-> FALSE, sub |-> None, err |-> "ExpiredSignatureError"]
    ELSE [ok |-> TRUE, sub |-> token.payload.sub, err |-> "none"]

\* check_refresh_token (app/core/dependencies/auth_dep.py is not among the
\* sources; this follows the specification, 4.2): the token of the cookie
\* user_refresh_token must verify, and its subject is the id of the user that
\* the route receives.
check_refresh_token(token, T, t) ==
    LET d == jwt_decode(token, SECRET_KEY, t)
        user == {r \in T : str(r.id) = d.sub}
    IN  IF ~d.ok THEN [ok |-> FALSE, user |-> {}, err |-> d.err]
        ELSE IF user = {} THEN [ok |-> FALSE, user |-> {}, err |-> "rejected"]
        ELSE [ok |-> TRUE, user |-> user, err |-> "none"]

\* The subjects of the tokens: the ids of the two users, as text.
Subjects == {str(uuid4(1)), str(uuid4(2))}

\* The steps the clock takes: a tick, a second, and the two lifetimes.
Deltas ==
    {1, TicksPerSecond, AccessSeconds * TicksPerSecond, RefreshSeconds * TicksPerSecond}

InitTok ==
    /\ InitAuth /\ InitSession /\ InitTokens
    /\ users = {SeedRow(1, EmailA, PhoneA, Ivan), SeedRow(2, EmailB, PhoneB, Ivan)}
    /\ view = users /\ next_id = Cardinality(users) + 1 /\ pwd = NoPwd
    /\ now \in {0, 1} /\ adv = 0

\* create_tokens({"sub": s}) at the current time.
TokIssue ==
    /\ dec.op = "none"
    /\ Cardinality(tokens) < MaxIssues
    /\ \E s \in Subjects :
            tokens' = tokens \cup {[sub |-> s, at |-> now,
                                    pair |-> create_tokens([sub |-> s], now)]}
    /\ UNCHANGED <<users, pending, req, nreq, next_id, view, txn, last, ncalls, now, adv,
                   dec, pwd>>

\* An issued token, or one with its claims and another signature, is verified.
TokVerify ==
    /\ dec.op = "none"
    /\ \E i \in tokens, k \in {"access_token", "refresh_token"}, forged \in BOOLEAN :
            LET token == IF forged THEN jwt_encode(i.pair[k].payload, "other")
                         ELSE i.pair[k]
                d == jwt_decode(token, SECRET_KEY, now)
            IN  dec' = [op |-> "decode", token |-> token, at |-> now, ok |-> d.ok,
                        sub |-> d.sub, err |-> d.err]
    /\ UNCHANGED <<users, pending, req, nreq, next_id, view, txn, last, ncalls, now, adv,
                   tokens, pwd>>

\* The verification is over: the request it belongs to goes on or is refused.
TokDone ==
    /\ dec.op # "none"
    /\ dec' = NoDecode
    /\ UNCHANGED <<users, pending, req, nreq, next_id, view, txn, last, ncalls, now, adv,
                   tokens, pwd>>

TokTick ==
    /\ dec.op = "none"
    /\ adv < MaxAdvances
    /\ adv' = adv + 1
    /\ \E d \in Deltas : now' = now + d
    /\ UNCHANGED <<users, pending, req, nreq, next_id, view, txn, last, ncalls, tokens,
                   dec, pwd>>

\* --------------------------------------- app/auth/schemas.py: validation

PasswordMinLength == 5

PasswordMaxLength == 50

RegisterSchema ==
    {"email", "phone_number", "first_name", "last_name", "password", "confirm_password"}

\* The field constraints of SUserRegister, and the equality of the two
\* passwords that check_password requires.
SUserRegisterValid(body) ==
    /\ validate_phone_number(body.phone_number)
    /\ Len(body.password) >= PasswordMinLength /\ Len(body.password) <= PasswordMaxLength
    /\ Len(body.confirm_password) >= PasswordMinLength
    /\ Len(body.confirm_password) <= PasswordMaxLength
    /\ body.password = body.confirm_password

\* SUserRegister(**body) once valid: the email is normalised and
\* check_password has replaced the password by its hash.
SUserRegister(body, salt) ==
    Obj(RegisterSchema,
        [email |-> EmailStr(body.email), phone_number |-> body.phone_number,
         first_name |-> body.first_name, last_name |-> body.last_name,
         password |-> get_password_hash(body.password, salt),
         confirm_password |-> body.confirm_password])

\* SUserAddDB(**user_data_dict): every given key that is a field of the schema
\* is a set field, any other key is ignored; the password must have 5
\* characters or more.
SUserAddDBValid(d) == Len(d["password"]) >= PasswordMinLength

SUserAddDB(d) == Obj(UserSchema, [f \in DOMAIN d \cap UserSchema |-> d[f]])

SUserAuthValid(body) ==
    Len(body.password) >= PasswordMinLength /\ Len(body.password) <= PasswordMaxLength

\* ------------------------------------------- app/auth/router.py: requests

BodyEmails == {EmailA, <<"a", "X.COM">>, EmailB}

RegisterBody(e, ph, pw, cf) ==
    [email |-> e, phone_number |-> ph, first_name |-> Ivan, last_name |-> Petrov,
     password |-> pw, confirm_password |-> cf]

\* The body with one more key, which no field of the schema declares.
WithExtra(body, k, v) == [f \in DOMAIN body \cup {k} |-> IF f = k THEN v ELSE body[f]]

\* The bodies posted to /register/: valid ones, one for each way the
\* validation refuses a body, and one that asks for the admin role.
RegisterBodies ==
    {RegisterBody(e, ph, pw, pw) : e \in BodyEmails, ph \in {PhoneA, PhoneB},
                                   pw \in {PwA, PwCyrA}}
        \cup {RegisterBody(EmailA, <<"", "5d-1">>, PwA, PwA),
              RegisterBody(EmailA, PhoneA, PwShort, PwShort),
              RegisterBody(EmailA, PhoneA, PwA, PwB),
              RegisterBody(EmailA, PhoneA, PwLongA, PwLongA),
              WithExtra(RegisterBody(EmailB, PhoneB, PwA, PwA), "role_id", ADMIN)}

LoginBodies ==
    {[NoBody EXCEPT !.email = e, !.password = pw] :
        e \in BodyEmails, pw \in {PwA, PwB, PwCyrA, PwCyrB}}
        \cup {[NoBody EXCEPT !.email = EmailA, !.password = PwShort]}

\* What the session s sees: the committed rows and its own flushed rows.
SessionView(s) == users \cup pending[s]

\* The INSERT of row r by the session s waits while another transaction
\* holds an uncommitted row with the same value in a unique column.
Blocked(s, r) ==
    \E s2 \in Sessions \ {s} : \E r2 \in pending[s2] : \E c \in UniqueCols : r2[c] = r[c]

\* POST /register/ arrives: the body is validated into SUserRegister; a body
\* that is not valid is answered without calling register_user.
BeginRegister(s) ==
    /\ req[s].kind = "none"
    /\ nreq < MaxRequests
    /\ nreq' = nreq + 1
    /\ \E body \in RegisterBodies, salt \in Salts :
            req' = [req EXCEPT ![s] =
                IF SUserRegisterValid(body)
                THEN [NoReq EXCEPT !.kind = "register", !.pc = "find", !.body = body,
                                   !.salt = salt, !.user_data = SUserRegister(body, salt)]
                ELSE [NoReq EXCEPT !.kind = "register", !.pc = "done", !.body = body,
                                   !.out = "ValidationError"]]
    /\ UNCHANGED <<users, pending, next_id, view, txn, last, ncalls, now, adv, tokens, dec,
                   pwd>>

\* register_user, to its first await: the lookup of the email. An exception
\* ends the request, the session being rolled back.
RegisterFind(s) ==
    /\ req[s].kind = "register" /\ req[s].pc = "find"
    /\ LET existing_user ==
                find_one_or_none(SessionView(s), EmailModel(req[s].user_data.data["email"]),
                                 FALSE)
       IN  req' = [req EXCEPT ![s] =
                IF existing_user.exc # "none"
                THEN [@ EXCEPT !.pc = "done", !.out = existing_user.exc]
                ELSE IF existing_user.recs # {}
                THEN [@ EXCEPT !.pc = "done", !.out = "UserAlreadyExistsException"]
                ELSE [@ EXCEPT !.pc = "add"]]
    /\ UNCHANGED <<users, pending, nreq, next_id, view, txn, last, ncalls, now, adv, tokens,
                   dec, pwd>>

\* register_user, after the lookup: the dump without confirm_password goes
\* into SUserAddDB and is added. An exception ends the request, the session
\* being rolled back.
RegisterAdd(s) ==
    /\ req[s].kind = "register" /\ req[s].pc = "add"
    /\ LET dumped == model_dump_all(req[s].user_data)
           user_data_dict == [k \in DOMAIN dumped \ {"confirm_password"} |-> dumped[k]]
           added == add(SessionView(s), SUserAddDB(user_data_dict), uuid4(next_id), now,
                        FALSE)
       IN  IF ~SUserAddDBValid(user_data_dict)
           THEN /\ req' = [req EXCEPT ![s] = [@ EXCEPT !.pc = "done",
                                                       !.out = "ValidationError"]]
                /\ UNCHANGED <<pending, next_id>>
           ELSE /\ ~Blocked(s, NewRow(model_dump(SUserAddDB(user_data_dict)),
                                       uuid4(next_id), now))
                /\ next_id' = next_id + 1
                /\ IF added.exc # "none"
                   THEN /\ req' = [req EXCEPT ![s] = [@ EXCEPT !.pc = "done",
                                                               !.out = added.exc]]
                        /\ pending' = [pending EXCEPT ![s] = {}]
                   ELSE /\ req' = [req EXCEPT ![s] = [@ EXCEPT !.pc = "commit"]]
                        /\ pending' = [pending EXCEPT ![s] = added.rows \ users]
    /\ UNCHANGED <<users, nreq, view, txn, last, ncalls, now, adv, tokens, dec, pwd>>

\* register_user has returned its message; the session dependency commits.
RegisterCommit(s) ==
    /\ req[s].kind = "register" /\ req[s].pc = "commit"
    /\ users' = users \cup pending[s]
    /\ pending' = [pending EXCEPT ![s] = {}]
    /\ req' = [req EXCEPT ![s] = [@ EXCEPT !.pc = "done", !.out = "registered"]]
    /\ UNCHANGED <<nreq, next_id, view, txn, last, ncalls, now, adv, tokens, dec, pwd>>

authenticate_user_always(user, password) == user # {}

\* authenticate_user(user, password), `user` being the set of the rows found.
authenticate_user(user, password) ==
    ~(user = {} \/ \E u \in user : verify_password(password, u.password) = FALSE)

\* POST /login/ arrives: the body is validated into SUserAuth.
BeginLogin(s) ==
    /\ req[s].kind = "none"
    /\ nreq < MaxRequests
    /\ nreq' = nreq + 1
    /\ \E body \in LoginBodies :
            req' = [req EXCEPT ![s] =
                IF SUserAuthValid(body)
                THEN [NoReq EXCEPT !.kind = "login", !.pc = "auth", !.body = body,
                                   !.user_data = Obj({"email", "password"},
                                        [email |-> EmailStr(body.email),
                                         password |-> body.password])]
                ELSE [NoReq EXCEPT !.kind = "login", !.pc = "done", !.body = body,
                                   !.out = "ValidationError"]]
    /\ UNCHANGED <<users, pending, next_id, view, txn, last, ncalls, now, adv, tokens, dec,
                   pwd>>

\* auth_user: the lookup, the check of the password, the cookies. Its session
\* is never committed.
AuthUser(s) ==
    /\ req[s].kind = "login" /\ req[s].pc = "auth"
    /\ LET user == find_one_or_none(SessionView(s),
                                    EmailModel(req[s].user_data.data["email"]), FALSE)
           password == req[s].user_data.data["password"]
       IN  req' = [req EXCEPT ![s] =
                IF user.exc # "none"
                THEN [@ EXCEPT !.pc = "done", !.out = user.exc]
                ELSE IF \E u \in user.recs : verify_raises(u.password)
                THEN [@ EXCEPT !.pc = "done", !.out = "UnknownHashError"]
                ELSE IF ~(user.recs # {} /\ authenticate_user(user.recs, password))
                THEN [@ EXCEPT !.pc = "done", !.out = "IncorrectEmailOrPasswordException"]
                ELSE [@ EXCEPT !.pc = "done", !.out = "ok",
                               !.cookies = set_tokens((CHOOSE u \in user.recs : TRUE).id,
                                                      now)]]
    /\ UNCHANGED <<users, pending, nreq, next_id, view, txn, last, ncalls, now, adv, tokens,
                   dec, pwd>>

\* The response has been sent; the session is closed.
Finish(s) ==
    /\ req[s].kind # "none" /\ req[s].pc = "done"
    /\ req' = [req EXCEPT ![s] = NoReq]
    /\ UNCHANGED <<users, pending, nreq, next_id, view, txn, last, ncalls, now, adv, tokens,
                   dec, pwd>>

\* response.delete_cookie(key): the cookie is sent back empty and expired.
Deleted == jwt_encode([sub |-> None, exp |-> 0, type |-> "deleted"], "none")

logout_keep_refresh(cookies) ==
    [k \in DOMAIN cookies \cup {"user_access_token"} |->
        IF k = "user_access_token" THEN Deleted ELSE cookies[k]]

\* logout(response): the cookies of the response after the two delete_cookie.
logout(cookies) ==
    [k \in DOMAIN cookies \cup {"user_access_token", "user_refresh_token"} |->
        IF k \in {"user_access_token", "user_refresh_token"} THEN Deleted ELSE cookies[k]]

\* The session that serves the token routes.
TokSessions == {"s1"}

\* POST /logout: no dependency, no session.
Logout(s) ==
    /\ dec.op = "none"
    /\ req[s].kind = "none"
    /\ req' = [req EXCEPT ![s] = [NoReq EXCEPT !.kind = "logout", !.pc = "done",
                                                !.out = "ok", !.at = now,
                                                !.cookies = logout(NoReq.cookies)]]
    /\ UNCHANGED <<users, pending, nreq, next_id, view, txn, last, ncalls, now, adv, tokens,
                   dec, pwd>>

\* POST /refresh with the refresh token of an issued pair, or with its claims
\* under another signature, in the cookie: check_refresh_token gives the user
\* or refuses; process_refresh_token sets the cookies of a new pair.
ProcessRefreshToken(s) ==
    /\ dec.op = "none"
    /\ req[s].kind = "none"
    /\ \E i \in tokens, forged \in BOOLEAN :
            LET token == IF forged THEN jwt_encode(i.pair.refresh_token.payload, "other")
                         ELSE i.pair.refresh_token
                checked == check_refresh_token(token, users, now)
                user == CHOOSE u \in checked.user : TRUE
                cookies == set_tokens(user.id, now)
                issued == [sub |-> str(user.id), at |-> now,
                           pair |-> create_tokens([sub |-> str(user.id)], now)]
            IN  IF ~checked.ok
                THEN /\ req' = [req EXCEPT ![s] =
                            [NoReq EXCEPT !.kind = "refresh", !.pc = "done",
                                          !.out = checked.err, !.at = now]]
                     /\ UNCHANGED tokens
                ELSE /\ Cardinality(tokens \cup {issued}) <= MaxIssues
                     /\ req' = [req EXCEPT ![s] =
                            [NoReq EXCEPT !.kind = "refresh", !.pc = "done", !.out = "ok",
                                          !.at = now, !.user = checked.user,
                                          !.cookies = cookies]]
                     /\ tokens' = tokens \cup {issued}
    /\ UNCHANGED <<users, pending, nreq, next_id, view, txn, last, ncalls, now, adv, dec,
                   pwd>>

NextTok ==
    \/ TokIssue
    \/ TokVerify
    \/ TokDone
    \/ TokTick
    \/ \E s \in TokSessions : Logout(s) \/ ProcessRefreshToken(s) \/ Finish(s)

SpecTok == InitTok /\ [][NextTok]_vars

Init ==
    /\ InitCommon
    /\ users = {} /\ view = {} /\ next_id = 1

Next ==
    \E s \in Sessions :
        \/ BeginRegister(s)
        \/ RegisterFind(s)
        \/ RegisterAdd(s)
        \/ RegisterCommit(s)
        \/ BeginLogin(s)
        \/ AuthUser(s)
        \/ Finish(s)

Spec == Init /\ [][Next]_vars

\* ===================================================== request properties

\* The session s serves a call of register_user that is at its lookup.
AtLookup(s) == req[s].kind = "register" /\ req[s].pc = "find"

\* A user with the email of the request of s has been registered.
Registered(s) == \E r \in users : r.email = EmailStr(req[s].body.email)

\* C1: once a register_user request with the email e has succeeded, every
\* register_user call made later with e raises UserAlreadyExistsException and
\* leaves the user rows as they were.
C1_SecondRegistrationRefused ==
    [][\A s \in Sessions :
        (AtLookup(s) /\ Registered(s) /\ req'[s] # req[s]) =>
            /\ req'[s].pc = "done"
            /\ req'[s].out = "UserAlreadyExistsException"
            /\ users' = users
            /\ pending'[s] = {}]_vars

C1_Witness ==
    \E s \in Sessions :
        /\ req[s].kind = "register"
        /\ req[s].out = "UserAlreadyExistsException"
        /\ req[s].body.email = <<"a", "X.COM">>
        /\ \E r \in users : r.email = EmailA
        /\ Cardinality(users) = 1

\* C2: no two user rows share an email and no two share a phone number, in
\* the committed table and in what any session sees of it, however the
\* lookups and the adds of the requests interleave.
C2_EmailAndPhoneUnique ==
    \A s \in Sessions :
        \A r1 \in SessionView(s) : \A r2 \in SessionView(s) :
            r1 # r2 => (r1.email # r2.email /\ r1.phone_number # r2.phone_number)

\* Two requests with one email both passed the lookup; the second to add was
\* refused by the table.
C2_Witness ==
    \E s \in Sessions :
        /\ req[s].kind = "register"
        /\ req[s].out = "IntegrityError"
        /\ \E r \in users : r.email = req[s].user_data.data["email"]

\* C3: a row created by register_user stores the hash of the submitted
\* password, never the submitted password: while the row is flushed, and once
\* it is committed.
C3_PasswordStoredHashed ==
    /\ \A s \in Sessions : \A r \in pending[s] :
            /\ r.password = bcrypt(req[s].body.password, req[s].salt)
            /\ r.password # req[s].body.password
    /\ \A s \in Sessions :
            (req[s].kind = "register" /\ req[s].out = "registered") =>
                \E r \in users :
                    /\ r.email = EmailStr(req[s].body.email)
                    /\ r.password = bcrypt(req[s].body.password, req[s].salt)
                    /\ r.password # req[s].body.password
    /\ \A r \in users : IsHash(r.password) /\ r.password \notin PwdInputs

C3_Witness ==
    \E s \in Sessions :
        /\ req[s].kind = "register" /\ req[s].out = "registered"
        /\ req[s].body.password = PwCyrA
        /\ \E r \in users : r.password = bcrypt(PwCyrA, req[s].salt)

BothCookies == {"user_access_token", "user_refresh_token"}

\* C7: auth_user sets the two cookies exactly when a row with the submitted
\* email exists and the submitted password verifies against its hash; else it
\* raises IncorrectEmailOrPasswordException and sets no cookie. The users
\* table is unchanged in both cases.
C7_LoginSetsCookiesIffVerified ==
    [][\A s \in Sessions :
        (req[s].kind = "login" /\ req[s].pc = "auth" /\ req'[s] # req[s]) =>
            LET verified ==
                    \E r \in users :
                        /\ r.email = EmailStr(req[s].body.email)
                        /\ IsHash(r.password)
                        /\ bcrypt(req[s].body.password, r.password[2]) = r.password
            IN  /\ verified <=> DOMAIN req'[s].cookies = BothCookies
                /\ verified => req'[s].out = "ok"
                /\ ~verified =>
                        /\ req'[s].out = "IncorrectEmailOrPasswordException"
                        /\ req'[s].cookies = <<>>
                /\ users' = users /\ pending' = pending]_vars

C7_Witness ==
    \E s \in Sessions :
        /\ req[s].kind = "login" /\ req[s].out = "ok"
        /\ DOMAIN req[s].cookies = BothCookies
        /\ \E r \in users : req[s].cookies["user_access_token"].payload.sub = str(r.id)

C7_WitnessWrongPassword ==
    \E s \in Sessions :
        /\ req[s].kind = "login"
        /\ req[s].out = "IncorrectEmailOrPasswordException"
        /\ \E r \in users : r.email = EmailStr(req[s].body.email)
        /\ req[s].cookies = <<>>

\* ===================================================== BaseDAO properties

\* The rows of T equal to the object o on every field that was set on it.
EqualOnSetFields(T, o) == {r \in T : \A f \in o.fields_set : r[f] = o.data[f]}

Returned == last.op # "none" /\ last.exc = "none"

\* C4: delete with a filter object that has no set field raises ValueError and
\* executes nothing: the session's view, its transaction and the committed
\* rows are as they were, whatever rows exist.
C4_DeleteEmptyFilterRefused ==
    [][(last.op = "none" /\ last'.op = "delete" /\ last'.filters.fields_set = {})
         => (last'.exc = "ValueError" /\ view' = view /\ txn' = txn /\ users' = users)]_vars

C4_Witness ==
    /\ last.op = "delete"
    /\ last.filters.fields_set = {}
    /\ Cardinality(last.before) = 2
    /\ last.exc = "ValueError"

\* C8: find_one_or_none, the storage answering, returns None and raises
\* nothing when no row matches the filter, returns the row when exactly one
\* matches, and leaves the rows unchanged in both cases.
C8_FindOneOrNone ==
    (last.op = "find_one_or_none" /\ ~last.down) =>
        LET matching == EqualOnSetFields(last.before, last.filters)
        IN  /\ matching = {} => (last.exc = "none" /\ last.recs = {})
            /\ Cardinality(matching) = 1 => (last.exc = "none" /\ last.recs = matching)
            /\ Cardinality(matching) <= 1 => view = last.before

C8_Witness ==
    /\ last.op = "find_one_or_none"
    /\ ~last.down
    /\ Cardinality(last.before) = 2
    /\ last.filters.fields_set = {"email"}
    /\ Cardinality(last.recs) = 1

C8_WitnessAbsent ==
    /\ last.op = "find_one_or_none"
    /\ ~last.down
    /\ last.before # {}
    /\ last.recs = {}
    /\ last.exc = "none"

\* What an update of row r by the set fields of the objects in `by` may leave
\* in r2: a set field holds a given value, and every column outside `free`
\* that no object sets is as it was.
ChangedOnlyBy(r, r2, by, free) ==
    \A c \in Columns :
        /\ (\E o \in by : c \in o.fields_set) =>
                \E o \in by : c \in o.fields_set /\ r2[c] = o.data[c]
        /\ (c \notin free /\ ~\E o \in by : c \in o.fields_set) => r2[c] = r[c]

\* The update of the last call changed the rows in `matched` by the objects
\* by[r] and no other row; `free` are the columns it may change besides.
UpdateFrame(matched, by, free) ==
    /\ Cardinality(view) = Cardinality(last.before)
    /\ \A r \in last.before \ matched : r \in view
    /\ \A r \in matched :
            \E r2 \in view : r2.id = r.id /\ ChangedOnlyBy(r, r2, by[r], free)

\* The records of a bulk_update that name row r, without their id field.
Naming(r) ==
    {[data |-> last.list[i].data, fields_set |-> last.list[i].fields_set \ {"id"}] :
        i \in {j \in 1..Len(last.list) :
                    "id" \in last.list[j].fields_set /\ last.list[j].data["id"] = r.id}}

\* What the calls that read or delete do with their filter.
FilterExact ==
    LET matching == EqualOnSetFields(last.before, last.filters)
    IN  /\ last.op \in {"find_one_or_none", "find_all"} => last.recs = matching
        /\ last.op \in {"find_all", "count"} => last.n = Cardinality(matching)
        /\ last.op = "delete" =>
                (view = last.before \ matching /\ last.n = Cardinality(matching))
        /\ last.op \in {"find_one_or_none", "find_all", "count"} => view = last.before

\* What add and add_many do with their value objects: a set field is stored,
\* a field that was not set leaves the column at its default.
ValuesExact ==
    LET stored(o, r) ==
            \A c \in Columns \ {"id", "created_at", "updated_at"} :
                r[c] = IF c \in o.fields_set THEN o.data[c]
                       ELSE IF c = "role_id" THEN USER ELSE None
    IN  /\ last.op = "add" =>
                (\E r \in last.recs : stored(last.values, r) /\ view = last.before \cup {r})
        /\ last.op = "add_many" =>
                /\ view = last.before \cup last.recs
                /\ \A i \in 1..Len(last.list) : \E r \in last.recs : stored(last.list[i], r)
                /\ \A r \in last.recs : \E i \in 1..Len(last.list) : stored(last.list[i], r)

\* What update and bulk_update change, `free` being the columns they may
\* change without a value object naming them.
UpdateExact(free) ==
    /\ last.op = "update" =>
            LET matching == EqualOnSetFields(last.before, last.filters)
            IN  /\ last.n = Cardinality(matching)
                /\ UpdateFrame(matching, [r \in matching |-> {last.values}], free)
    /\ last.op = "bulk_update" =>
            LET named == {r \in last.before : Naming(r) # {}}
            IN  UpdateFrame(named, [r \in named |-> Naming(r)], free)

\* C9 as claimed: in every call that returns, a field that was not set
\* contributes nothing, the rows selected are those equal to the filter on
\* every set field, and an update changes the set value fields and leaves
\* every other column of the matched rows as it was.
C9_Claimed == Returned => (FilterExact /\ ValuesExact /\ UpdateExact({}))

\* C9 as amended: as claimed, except that an update also sets updated_at of
\* the matched rows to the transaction's now().
C9_UnsetFieldsContributeNothing ==
    Returned =>
        /\ FilterExact
        /\ ValuesExact
        /\ UpdateExact({"updated_at"})
        /\ last.op \in {"update", "bulk_update"} =>
                \A r2 \in view \ last.before : r2.updated_at = last.t

C9_Witness ==
    /\ Returned
    /\ last.op = "update"
    /\ last.filters.fields_set = {"email"}
    /\ last.values.fields_set = {"first_name"}
    /\ Cardinality(last.before) = 2
    /\ last.n = 1
    /\ \E r2 \in view \ last.before : r2.updated_at = 1 /\ r2.created_at = 0

\* The call of `last` sent a statement to the storage.
Executed ==
    CASE last.op = "none" -> FALSE
      [] last.op = "delete" -> last.filters.fields_set # {}
      [] last.op = "bulk_update" ->
            \E i \in 1..Len(last.list) : "id" \in last.list[i].fields_set
      [] OTHER -> TRUE

\* C10: when the storage raises during a BaseDAO call (the statement cannot
\* be executed, or the INSERT of add breaks a constraint of the table), the
\* call logs the error last and raises that error; it returns no result and
\* leaves the view as it was.
C10_StorageErrorsPropagate ==
    LET conflict ==
            /\ last.op = "add"
            /\ \E r \in last.before :
                    \/ r.email = last.values.data["email"]
                    \/ r.phone_number = last.values.data["phone_number"]
        raised == IF Executed /\ last.down THEN "DBAPIError"
                  ELSE IF conflict THEN "IntegrityError" ELSE "none"
    IN  raised # "none" =>
            /\ last.exc = raised
            /\ last.log[Len(last.log)] = "error"
            /\ last.recs = {} /\ last.n = -1
            /\ view = last.before

\* The example of C10 at the handler: register_user with a new email and a
\* phone number in use ends with the storage error, not with the message.
C10_RegisterUsedPhone ==
    [][\A s \in Sessions :
        (/\ req[s].kind = "register" /\ req[s].pc = "add" /\ req'[s] # req[s]
         /\ \E r \in users : r.phone_number = req[s].body.phone_number
         /\ ~Registered(s))
            => (req'[s].out = "IntegrityError" /\ users' = users)]_vars

C10_Witness ==
    /\ last.op = "add"
    /\ ~last.down
    /\ last.exc = "IntegrityError"
    /\ \E r \in last.before :
            /\ r.phone_number = last.values.data["phone_number"]
            /\ r.email # last.values.data["email"]
    /\ ~\E r \in last.before : r.email = last.values.data["email"]

C10_WitnessDown ==
    /\ last.op = "update"
    /\ last.down
    /\ last.exc = "DBAPIError"

\* =================================================== password properties

\* C6 as claimed: the hash of p verifies against p, and against no string q
\* that differs from p.
C6_Claimed ==
    pwd.state = "verified" => (pwd.vp /\ (pwd.q # pwd.p => ~pwd.vq))

\* ====================================================== token properties

IssuedAs(token) ==
    {i \in tokens : token \in {i.pair.access_token, i.pair.refresh_token}}

\* C5: a token issued by create_tokens for the subject s decodes to s at every
\* time before its exp, and is rejected at every time after it; so for the
\* access and for the refresh token.
C5_TokenValidUntilExpiry ==
    \A i \in tokens :
        /\ i.pair.access_token.payload.type = "access"
        /\ i.pair.refresh_token.payload.type = "refresh"
        /\ (dec.op = "decode" /\ i \in IssuedAs(dec.token)) =>
                LET exp == dec.token.payload.exp * TicksPerSecond
                IN  /\ dec.at < exp => (dec.ok /\ dec.sub = i.sub)
                    /\ dec.at > exp => ~dec.ok

C5_Witness ==
    /\ dec.op = "decode"
    /\ dec.token.payload.type = "refresh"
    /\ IssuedAs(dec.token) # {}
    /\ dec.at > dec.token.payload.exp * TicksPerSecond
    /\ dec.err = "ExpiredSignatureError"

C5_WitnessBefore ==
    /\ dec.op = "decode"
    /\ dec.token.payload.type = "access"
    /\ \E i \in IssuedAs(dec.token) : i.at < dec.at /\ dec.sub = i.sub
    /\ dec.at < dec.token.payload.exp * TicksPerSecond
    /\ dec.ok

\* The lifetime of the access token that the docstrings of create_tokens and
\* set_tokens state: 30 minutes, in seconds.
DocumentedAccessSeconds == 1800

\* C11 as claimed: the access token created at the time t expires at t plus
\* 30 minutes and the refresh token of the same call at t plus 7 days, in
\* whole seconds.
C11_Claimed ==
    \A i \in tokens :
        /\ i.pair.access_token.payload.exp
                = int_timestamp(i.at + DocumentedAccessSeconds * TicksPerSecond)
        /\ i.pair.refresh_token.payload.exp
                = int_timestamp(i.at + RefreshSeconds * TicksPerSecond)

\* ================================================ transaction properties

\* The step is a BaseDAO call.
IsDaoCall == last.op = "none" /\ last'.op # "none"

\* The step ends the transaction of the session.
EndsTxn == txn.state # "none" /\ txn'.state = "none"

\* C12: a BaseDAO call leaves the committed rows as they are and, once it has
\* sent a statement, the transaction open; the committed rows change only
\* when the caller commits an active transaction, and then to the flushed
\* view; when the caller ends the transaction in any other way, every change
\* the calls made is gone from the view.
C12_CallerOwnsTransaction ==
    [][/\ IsDaoCall => (users' = users /\ (Executed' => txn'.state # "none"))
       /\ users' # users => (EndsTxn /\ txn.state = "active" /\ users' = view)
       /\ (EndsTxn /\ users' = users) => view' = users]_vars

\* Two adds were flushed and are not durable.
C12_Witness ==
    /\ last.op = "add" /\ last.exc = "none"
    /\ txn.state = "active"
    /\ ncalls = MaxCalls
    /\ Cardinality(view \ users) = 2

\* An add was flushed and rolled back: its id is used up and its row is gone.
C12_WitnessRolledBack ==
    /\ txn.state = "none"
    /\ ncalls > 0
    /\ users = {} /\ view = {}
    /\ next_id > 1

\* Flushed rows were committed by the caller.
C12_WitnessCommitted ==
    /\ txn.state = "none"
    /\ ncalls > 0
    /\ view = users
    /\ Cardinality(users) = 2
    /\ next_id = 3
    /\ \E r \in users : r.id = uuid4(2) /\ r.created_at = 1

\* =============================================== token issuance properties

\* The cookies c hold the pair that create_tokens makes for the user u at t.
CookiesHoldPair(c, u, t) ==
    /\ DOMAIN c = BothCookies
    /\ c["user_access_token"].payload.type = "access"
    /\ c["user_refresh_token"].payload.type = "refresh"
    /\ c["user_access_token"].payload.sub = str(u.id)
    /\ c["user_refresh_token"].payload.sub = str(u.id)
    /\ [access_token |-> c["user_access_token"],
        refresh_token |-> c["user_refresh_token"]] = create_tokens([sub |-> str(u.id)], t)

\* C13: create_tokens({sub: s}) returns two tokens, one of type access and one
\* of type refresh, both with the subject s and an expiry, the access token's
\* before the refresh token's; set_tokens puts the pair made for
\* str(user_id) into the cookies user_access_token and user_refresh_token.
C13_TwoTokensOneSubject ==
    /\ \A i \in tokens :
            LET a == i.pair.access_token.payload
                r == i.pair.refresh_token.payload
            IN  /\ DOMAIN i.pair = {"access_token", "refresh_token"}
                /\ DOMAIN a = {"sub", "exp", "type"} /\ DOMAIN r = {"sub", "exp", "type"}
                /\ a.type = "access" /\ r.type = "refresh"
                /\ a.sub = i.sub /\ r.sub = i.sub
                /\ a.exp < r.exp
    /\ \A s \in TokSessions :
            (req[s].kind = "refresh" /\ req[s].out = "ok") =>
                \E u \in req[s].user : CookiesHoldPair(req[s].cookies, u, req[s].at)

C13_Witness ==
    \E s \in TokSessions :
        /\ req[s].kind = "refresh" /\ req[s].out = "ok"
        /\ req[s].at > 0
        /\ \E u \in req[s].user : u.id = uuid4(2)
        /\ req[s].cookies["user_access_token"].payload.sub = str(uuid4(2))
        /\ Cardinality(tokens) = 2

\* The token of the last verification was issued at or before the time the
\* request of s was served, and verified at or after it.
ServedBetween(s, i) ==
    /\ dec.op = "decode"
    /\ i \in IssuedAs(dec.token)
    /\ req[s].out = "ok"
    /\ i.at <= req[s].at /\ req[s].at <= dec.at

\* C15: a token issued before a logout, or before a refresh that issued a new
\* pair, is accepted at every later time before its exp; logout deletes the
\* two cookies on its response and changes nothing that is stored.
C15_NothingRevoked ==
    /\ [](\A s \in TokSessions : \A i \in tokens :
            (/\ req[s].kind \in {"logout", "refresh"}
             /\ ServedBetween(s, i)
             /\ dec.at < dec.token.payload.exp * TicksPerSecond)
                => (dec.ok /\ dec.sub = i.sub))
    /\ [][\A s \in TokSessions :
            (req[s].kind = "none" /\ req'[s].kind = "logout") =>
                /\ DOMAIN req'[s].cookies = BothCookies
                /\ \A k \in BothCookies : req'[s].cookies[k] = Deleted
                /\ UNCHANGED <<users, view, pending, txn, tokens>>]_vars

C15_Witness ==
    \E s \in TokSessions : \E i \in tokens :
        /\ req[s].kind = "logout"
        /\ ServedBetween(s, i)
        /\ i.at < req[s].at /\ req[s].at < dec.at
        /\ dec.token.payload.type = "access"
        /\ dec.ok

C15_WitnessRefresh ==
    \E s \in TokSessions : \E i \in tokens :
        /\ req[s].kind = "refresh"
        /\ ServedBetween(s, i)
        /\ i.at < req[s].at /\ req[s].at < dec.at
        /\ dec.token = i.pair.refresh_token
        /\ dec.token # req[s].cookies["user_refresh_token"]
        /\ dec.ok

\* ======================================================== role properties

UpdateWithEmptyFilter == last.op = "update" /\ last.filters.fields_set = {}

\* C16: update with a filter object that has no set field raises no
\* validation error; the storage executing the statement (it is reachable,
\* and the values set no unique column on several rows), the call returns the
\* number of rows of the table and every row holds the given values.
C16_UpdateEmptyFilterHitsEveryRow ==
    UpdateWithEmptyFilter =>
        /\ last.exc # "ValueError"
        /\ (~last.down /\ (Cardinality(last.before) <= 1
                              \/ last.values.fields_set \cap UniqueCols = {}))
                => last.exc = "none"
        /\ last.exc = "none" =>
                /\ last.n = Cardinality(last.before)
                /\ Cardinality(view) = Cardinality(last.before)
                /\ \A r \in last.before :
                        \E r2 \in view :
                            /\ r2.id = r.id
                            /\ \A f \in last.values.fields_set : r2[f] = last.values.data[f]

C16_Witness ==
    /\ UpdateWithEmptyFilter
    /\ last.exc = "none"
    /\ Cardinality(last.before) = 2
    /\ last.n = 2
    /\ \A r \in last.before : r.first_name = Ivan
    /\ \A r \in view : r.first_name = Olga

====
